---- MODULE Spec2Model ----
(***************************************************************************)
(* Model of src/serializer/ResidualHeapInspector.js: the inspector that    *)
(* tells the serializer which values are leaves and which own properties   *)
(* of a residual-heap object need not be emitted.                          *)
(*                                                                         *)
(* The heap snapshot and the realm are chosen by the initial state and are *)
(* never changed; the inspector's own state is the ignoredProperties map   *)
(* and what it sent to the logger.  Every public method is one action.     *)
(***************************************************************************)
EXTENDS Integers, Sequences, FiniteSets, TLC

VARIABLES
    heap,               \* the frozen heap snapshot: a sequence of ObjectValues, an object is its index
    realm,              \* [compatible: isCompatibleWith(MOBILE_JSC_VERSION), ObjectPrototype: intrinsic]
    ignoredProperties,  \* this.ignoredProperties: object -> [present, set]
    logger,             \* object -> number of logError calls made with that object
    scans,              \* object -> number of times _getIgnoredProperties was entered
    first,              \* the triples <<object, key, boolean>> of the first returning query for each object and key
    last,               \* the last call and its outcome
    calls               \* number of canIgnoreProperty calls made so far

vars == <<heap, realm, ignoredProperties, logger, scans, first, last, calls>>

\* Longest sequence of canIgnoreProperty queries explored on one inspector.
MaxCalls == 3

-----------------------------------------------------------------------------
(* Values *)

\* A value: its class, the literal it carries (strings and numbers, written
\* as strings), the object it is (0 when it is no heap object), and the
\* answers of isIntrinsic() and hasIdentifier().
Val(cat, value, ref) ==
    [cat |-> cat, value |-> value, ref |-> ref, intrinsic |-> FALSE, identifier |-> FALSE]

\* JavaScript's undefined: no value at all (not the UndefinedValue).
NoValue == Val("undefined", "", 0)

UndefinedValue == Val("Undefined", "", 0)
NumberValue(n) == Val("Number", n, 0)
StringValue(s) == Val("String", s, 0)
AbstractValue == Val("Abstract", "", 0)
Ref(o) == Val("Object", "", o)

\* Classes below PrimitiveValue.
PrimitiveValue == {"Undefined", "Null", "Boolean", "Number", "String", "Symbol"}

ValueClasses == PrimitiveValue \cup {"Object", "Function", "Abstract"}

\* Every value isLeaf is asked about: each class, intrinsic or not, and for
\* an abstract value with or without an identifier.
Values ==
    {v \in [cat : ValueClasses, value : {""}, ref : {0}, intrinsic : BOOLEAN, identifier : BOOLEAN] :
        v.identifier => v.cat = "Abstract"}


\* isLeaf with the intrinsic test moved above the abstract-value test.
isLeaf_IntrinsicFirst(val) ==
    IF val.cat = "Symbol" THEN FALSE
    ELSE IF val.intrinsic THEN FALSE
    ELSE IF val.cat = "Abstract" /\ val.identifier THEN TRUE
    ELSE val.cat \in PrimitiveValue

isLeaf(val) ==
    IF val.cat = "Symbol" THEN FALSE
    ELSE IF val.cat = "Abstract" /\ val.identifier THEN TRUE
    ELSE IF val.intrinsic THEN FALSE
    ELSE val.cat \in PrimitiveValue

-----------------------------------------------------------------------------
(* Objects, property bindings and descriptors *)

\* A property binding: its key and its descriptor; deleted is
\* `descriptor === undefined'.
Binding(key, w, e, c, v) ==
    [key |-> key, deleted |-> FALSE, writable |-> w, enumerable |-> e,
     configurable |-> c, value |-> v]

Deleted(key) ==
    [key |-> key, deleted |-> TRUE, writable |-> FALSE, enumerable |-> FALSE,
     configurable |-> FALSE, value |-> NoValue]

\* __originalName when the function has none.
NoName == "<undefined>"

\* The intrinsic an object of the class gets as its $Prototype.
PrototypeOf(cls) ==
    CASE cls = "ArrayValue" -> "ArrayPrototype"
      [] cls = "RegExp" -> "RegExpPrototype"
      [] cls \in {"ECMAScriptSourceFunctionValue", "NativeFunctionValue"} -> "FunctionPrototype"
      [] OTHER -> "ObjectPrototype"

\* An ObjectValue.  cls is its class; originalConstructor is an object or 0
\* (undefined); symbols is symbols.size; proto is $Prototype.
Object(cls, props) ==
    [cls |-> cls, properties |-> props, Strict |-> FALSE, FunctionKind |-> "normal",
     defaultLength |-> TRUE, originalName |-> NoName, originalConstructor |-> 0,
     symbols |-> 0, proto |-> PrototypeOf(cls), extensible |-> TRUE]

FunctionClasses == {"ECMAScriptSourceFunctionValue", "NativeFunctionValue"}

IsArray(val) == val.cls = "ArrayValue"

IsFunctionValue(val) == val.cls \in FunctionClasses

getKind(val) == IF val.cls = "RegExp" THEN "RegExp" ELSE "Object"

\* Position of the binding of `name' in val.properties, 0 when there is none.
IndexOf(val, name) ==
    IF \E i \in 1..Len(val.properties) : val.properties[i].key = name
    THEN CHOOSE i \in 1..Len(val.properties) : val.properties[i].key = name
    ELSE 0

\* val.originalConstructor as a value: the object it names, or undefined.
OriginalConstructor(val) ==
    IF val.originalConstructor = 0 THEN NoValue ELSE Ref(val.originalConstructor)

-----------------------------------------------------------------------------
(* The property rules *)

\* The outcome of one _canIgnoreProperty call: what it returns, whether an
\* invariant failed instead, and whether it called logger.logError.
Outcome(ret, threw, logged) == [ret |-> ret, threw |-> threw, logged |-> logged]


\* The array branch without the test of configurable.
ArrayLength_AnyConfigurable(key, desc) ==
    key = "length" /\ desc.writable /\ ~desc.enumerable

\* The array branch: `length' with the descriptor an array literal gives it.
ArrayLength(key, desc) ==
    key = "length" /\ desc.writable /\ ~desc.enumerable /\ ~desc.configurable


\* The report made for every `length' of a function.
LengthAccessor_Always(desc) == TRUE

\* `desc.value === undefined' on a function's length: the accessor is reported.
LengthAccessor(desc) == desc.value = NoValue


\* The verdict on `length' that retains every accessor.
FunctionLength_RetainAccessor(val, desc) ==
    /\ desc.value # NoValue
    /\ ~desc.writable /\ ~desc.enumerable /\ desc.configurable /\ val.defaultLength

\* The verdict on a function's `length'.
FunctionLength(val, desc) ==
    ~desc.writable /\ ~desc.enumerable /\ desc.configurable /\ val.defaultLength


\* The `name' rule without the test of the compatibility mode.
NameRetained_AnyRealm(rlm, val, desc) ==
    /\ desc.value # NoValue
    /\ \/ desc.value.cat = "Abstract"
       \/ /\ val.originalName # NoName
          /\ val.originalName # ""
          /\ ~(desc.value.cat = "String" /\ desc.value.value = val.originalName)

\* `name' of a function is retained when it was set explicitly.
NameRetained(rlm, val, desc) ==
    /\ desc.value # NoValue
    /\ ~rlm.compatible
    /\ \/ desc.value.cat = "Abstract"
       \/ /\ val.originalName # NoName
          /\ val.originalName # ""
          /\ ~(desc.value.cat = "String" /\ desc.value.value = val.originalName)


\* The invariant weakened to `val instanceof FunctionValue'.
SourceFunctionInvariant_AnyFunction(val) == val.cls \in FunctionClasses

\* invariant(val instanceof ECMAScriptSourceFunctionValue)
SourceFunctionInvariant(val) == val.cls = "ECMAScriptSourceFunctionValue"


\* The arguments/caller rule without the test of $Strict.
PoisonPill_AnyMode(val, desc) ==
    /\ desc.writable /\ ~desc.enumerable /\ desc.configurable
    /\ desc.value.cat = "Undefined"
    /\ val.FunctionKind = "normal"

\* The autogenerated `arguments' and `caller' of a sloppy normal function.
PoisonPill(val, desc) ==
    /\ ~val.Strict
    /\ desc.writable /\ ~desc.enumerable /\ desc.configurable
    /\ desc.value.cat = "Undefined"
    /\ val.FunctionKind = "normal"

\* The `prototype' a function declaration creates.
OwnPrototype(h, o, desc) ==
    /\ ~desc.configurable /\ ~desc.enumerable /\ desc.writable
    /\ desc.value.cat = "Object"
    /\ h[desc.value.ref].originalConstructor = o

\* The regular-expression branch.
LastIndex(val, key, desc) ==
    /\ getKind(val) = "RegExp"
    /\ key = "lastIndex" /\ desc.writable /\ ~desc.enumerable /\ ~desc.configurable

\* The rule every branch falls through to.
ConstructorRule(val, key, desc) ==
    /\ key = "constructor"
    /\ desc.configurable /\ ~desc.enumerable /\ desc.writable
    /\ desc.value = OriginalConstructor(val)

_canIgnoreProperty(h, rlm, o, key, desc) ==
    LET val == h[o]
        fallback == Outcome(ConstructorRule(val, key, desc), FALSE, FALSE)
    IN
    IF IsArray(val) THEN
        IF ArrayLength(key, desc) THEN Outcome(TRUE, FALSE, FALSE) ELSE fallback
    ELSE IF IsFunctionValue(val) THEN
        IF key = "length" THEN
            Outcome(FunctionLength(val, desc), FALSE, LengthAccessor(desc))
        ELSE IF key = "name" THEN
            Outcome(~NameRetained(rlm, val, desc), FALSE, FALSE)
        ELSE IF key \in {"arguments", "caller"} /\ ~SourceFunctionInvariant(val) THEN
            Outcome(FALSE, TRUE, FALSE)
        ELSE IF key \in {"arguments", "caller"} /\ PoisonPill(val, desc) THEN
            Outcome(TRUE, FALSE, FALSE)
        ELSE IF key = "prototype" /\ OwnPrototype(h, o, desc) THEN
            Outcome(TRUE, FALSE, FALSE)
        ELSE fallback
    ELSE IF LastIndex(val, key, desc) THEN
        Outcome(desc.value.cat = "Number" /\ desc.value.value = "0", FALSE, FALSE)
    ELSE fallback

\* The loop of _getIgnoredProperties from binding i on: the set built, the
\* number of logError calls made, and whether an invariant ended the loop.
RECURSIVE ScanFrom(_, _, _, _, _, _)
ScanFrom(h, rlm, o, i, set, logged) ==
    IF i > Len(h[o].properties) THEN [set |-> set, logged |-> logged, threw |-> FALSE]
    ELSE LET b == h[o].properties[i] IN
         IF b.deleted THEN ScanFrom(h, rlm, o, i + 1, set, logged)
         ELSE LET r == _canIgnoreProperty(h, rlm, o, b.key, b)
                  n == IF r.logged THEN logged + 1 ELSE logged
              IN IF r.threw THEN [set |-> set, logged |-> n, threw |-> TRUE]
                 ELSE ScanFrom(h, rlm, o, i + 1, IF r.ret THEN set \cup {b.key} ELSE set, n)

_getIgnoredProperties(h, rlm, o) == ScanFrom(h, rlm, o, 1, {}, 0)

getPropertyValue(val, name) ==
    LET i == IndexOf(val, name) IN
    IF i = 0 THEN NoValue
    ELSE IF val.properties[i].deleted THEN NoValue
    ELSE val.properties[i].value

\* The loop of isDefaultPrototype from binding i on.
RECURSIVE NamesFrom(_, _, _)
NamesFrom(val, i, foundConstructor) ==
    IF i > Len(val.properties) THEN foundConstructor
    ELSE LET name == val.properties[i].key IN
         IF name = "constructor" /\ getPropertyValue(val, name) = OriginalConstructor(val)
         THEN NamesFrom(val, i + 1, TRUE)
         ELSE FALSE

isDefaultPrototype(rlm, val) ==
    IF val.symbols # 0 \/ val.proto # rlm.ObjectPrototype \/ ~val.extensible
    THEN FALSE
    ELSE NamesFrom(val, 1, FALSE)

-----------------------------------------------------------------------------
(* The inspector *)

NoEntry == [present |-> FALSE, set |-> {}]


\* The test of the map that takes an empty set for a missing entry.
CacheMiss_OrEmpty(entry) == ~entry.present \/ entry.set = {}

\* `if (!set)': the map has no entry for the object.
CacheMiss(entry) == ~entry.present

NoCall ==
    [op |-> "none", val |-> 0, key |-> "", ret |-> FALSE, threw |-> FALSE,
     arg |-> NoValue, value |-> NoValue]

\* The keys the callers ask about: every key bound somewhere in the heap and
\* one that no object binds.
QueryKeys ==
    UNION {{heap[o].properties[i].key : i \in 1..Len(heap[o].properties)} : o \in DOMAIN heap}
        \cup {"toString"}

\* The state after `new ResidualHeapInspector(realm, logger)' over the heap h.
Constructed(h, rlm) ==
    /\ heap = h
    /\ realm = rlm
    /\ ignoredProperties = [o \in DOMAIN h |-> NoEntry]
    /\ logger = [o \in DOMAIN h |-> 0]
    /\ scans = [o \in DOMAIN h |-> 0]
    /\ first = {}
    /\ last = NoCall
    /\ calls = 0

\* The first answer recorded for <<o, key>>, kept once it is there.
Remember(o, key, ret) ==
    IF \E f \in first : f[1] = o /\ f[2] = key THEN first ELSE first \cup {<<o, key, ret>>}

canIgnoreProperty(o, key) ==
    /\ calls < MaxCalls
    /\ calls' = calls + 1
    /\ IF CacheMiss(ignoredProperties[o])
       THEN LET scan == _getIgnoredProperties(heap, realm, o) IN
            /\ scans' = [scans EXCEPT ![o] = @ + 1]
            /\ logger' = [logger EXCEPT ![o] = @ + scan.logged]
            /\ IF scan.threw
               THEN /\ UNCHANGED <<ignoredProperties, first>>
                    /\ last' = [NoCall EXCEPT !.op = "canIgnoreProperty", !.val = o,
                                              !.key = key, !.threw = TRUE]
               ELSE /\ ignoredProperties' =
                           [ignoredProperties EXCEPT ![o] = [present |-> TRUE, set |-> scan.set]]
                    /\ first' = Remember(o, key, key \in scan.set)
                    /\ last' = [NoCall EXCEPT !.op = "canIgnoreProperty", !.val = o,
                                              !.key = key, !.ret = key \in scan.set]
       ELSE /\ UNCHANGED <<ignoredProperties, logger, scans>>
            /\ first' = Remember(o, key, key \in ignoredProperties[o].set)
            /\ last' = [NoCall EXCEPT !.op = "canIgnoreProperty", !.val = o, !.key = key,
                                      !.ret = key \in ignoredProperties[o].set]
    /\ UNCHANGED <<heap, realm>>

isLeafCall(v) ==
    /\ last' = [NoCall EXCEPT !.op = "isLeaf", !.arg = v, !.ret = isLeaf(v)]
    /\ UNCHANGED <<heap, realm, ignoredProperties, logger, scans, first, calls>>

isDefaultPrototypeCall(o) ==
    /\ last' = [NoCall EXCEPT !.op = "isDefaultPrototype", !.val = o,
                              !.ret = isDefaultPrototype(realm, heap[o])]
    /\ UNCHANGED <<heap, realm, ignoredProperties, logger, scans, first, calls>>

getPropertyValueCall(o, name) ==
    /\ last' = [NoCall EXCEPT !.op = "getPropertyValue", !.val = o, !.key = name,
                              !.value = getPropertyValue(heap[o], name)]
    /\ UNCHANGED <<heap, realm, ignoredProperties, logger, scans, first, calls>>

CanIgnoreProperty == \E o \in DOMAIN heap, key \in QueryKeys : canIgnoreProperty(o, key)
IsLeaf == \E v \in Values : isLeafCall(v)
IsDefaultPrototype == \E o \in DOMAIN heap : isDefaultPrototypeCall(o)
GetPropertyValue == \E o \in DOMAIN heap, name \in QueryKeys : getPropertyValueCall(o, name)

Next == CanIgnoreProperty \/ IsLeaf \/ IsDefaultPrototype \/ GetPropertyValue

-----------------------------------------------------------------------------
(* The heaps inspected *)

Realms == [compatible : BOOLEAN, ObjectPrototype : {"ObjectPrototype"}]

\* Every descriptor of `key' over the values vals, and the deleted binding.
Descs(key, vals) ==
    {Binding(key, w, e, c, v) : w \in BOOLEAN, e \in BOOLEAN, c \in BOOLEAN, v \in vals}
        \cup {Deleted(key)}

\* The binding b alone, or with one of the bindings of others before or after it.
With(b, others) ==
    {<<b>>} \cup UNION {{<<b, x>>, <<x, b>>} : x \in {y \in others : y.key # b.key}}

\* `length' turned into an accessor, and the descriptors a function is born with.
LengthGetter == Binding("length", FALSE, FALSE, TRUE, NoValue)
LengthData == Binding("length", FALSE, FALSE, TRUE, NumberValue("0"))
ArgumentsPill == Binding("arguments", TRUE, FALSE, TRUE, UndefinedValue)
CallerPill == Binding("caller", TRUE, FALSE, TRUE, UndefinedValue)
NameData == Binding("name", FALSE, FALSE, TRUE, StringValue("foo"))
ConstructorData == Binding("constructor", TRUE, FALSE, TRUE, Ref(2))

FunctionKinds == {"normal", "arrow", "generator"}

PropertyKeys ==
    {"length", "name", "arguments", "caller", "prototype", "lastIndex", "constructor", "x"}

\* Object 2 of every heap: a function declaration whose `prototype' is object 1.
Constructor ==
    Object("ECMAScriptSourceFunctionValue", <<Binding("prototype", TRUE, FALSE, FALSE, Ref(1))>>)

\* Source functions with an `arguments' or `caller' binding of any shape.
ArgumentsFunctions ==
    {[Object("ECMAScriptSourceFunctionValue", props) EXCEPT !.Strict = s, !.FunctionKind = k] :
        s \in BOOLEAN, k \in FunctionKinds,
        props \in UNION {With(b, {LengthGetter}) :
            b \in Descs("arguments", {NoValue, UndefinedValue, NumberValue("0"), AbstractValue})
                \cup Descs("caller", {NoValue, UndefinedValue, NumberValue("0"), AbstractValue})}}

\* Functions with a `name' binding of any shape.
NameFunctions ==
    {[Object(cls, props) EXCEPT !.originalName = n] :
        cls \in FunctionClasses, n \in {NoName, "", "foo"},
        props \in UNION {With(b, {ArgumentsPill}) :
            b \in Descs("name", {NoValue, UndefinedValue, NumberValue("0"), StringValue("foo"),
                                 StringValue("bar"), AbstractValue})}}

\* Functions with a `length' binding of any shape.
LengthFunctions ==
    {[Object(cls, props) EXCEPT !.defaultLength = d] :
        cls \in FunctionClasses, d \in BOOLEAN,
        props \in UNION {With(b, {ArgumentsPill}) :
            b \in Descs("length", {NoValue, NumberValue("0")})}}

\* Arrays with one binding of any key and shape.
Arrays ==
    {[Object("ArrayValue", props) EXCEPT !.originalConstructor = oc] :
        oc \in {0, 2},
        props \in UNION {With(b, {ConstructorData}) :
            b \in UNION {Descs(key, {NoValue, UndefinedValue, NumberValue("0"), Ref(2)}) :
                key \in PropertyKeys}}}

\* Regular expressions with a `lastIndex' binding of any shape.
RegExps ==
    {Object("RegExp", <<b>>) :
        b \in Descs("lastIndex", {NoValue, NumberValue("0"), NumberValue("1")})}

\* Candidate prototype objects: a `constructor' binding, another binding, both
\* in either order, or neither.
ConstructorBindings ==
    {Deleted("constructor")} \cup
    {Binding("constructor", w, FALSE, TRUE, v) :
        w \in BOOLEAN, v \in {NoValue, UndefinedValue, Ref(2)}}

OtherBindings == {Deleted("x"), Binding("x", TRUE, TRUE, TRUE, NumberValue("0"))}

Prototypes ==
    {[Object("ObjectValue", props) EXCEPT !.originalConstructor = oc, !.symbols = n,
                                          !.proto = p, !.extensible = e] :
        oc \in {0, 2}, n \in {0, 1}, p \in {"ObjectPrototype", "FunctionPrototype"},
        e \in BOOLEAN,
        props \in {<<>>} \cup {<<x>> : x \in OtherBindings}
                    \cup UNION {With(b, OtherBindings) : b \in ConstructorBindings}}

\* The objects the rules are checked on one query at a time.
RuleObjects ==
    ArgumentsFunctions \cup NameFunctions \cup LengthFunctions \cup Arrays
        \cup RegExps \cup Prototypes

\* The objects on which sequences of queries are explored.
SequenceObjects ==
    {Object(cls, props) :
        cls \in FunctionClasses,
        props \in UNION {With(b, {LengthGetter, ArgumentsPill, CallerPill, Deleted("arguments")}) :
            b \in {LengthGetter, LengthData, ArgumentsPill, NameData}}}
    \cup {Object("ArrayValue", <<Binding("length", TRUE, FALSE, FALSE, NoValue)>>),
          [Object("ObjectValue", <<ConstructorData>>) EXCEPT !.originalConstructor = 2]}

Init ==
    \E val \in SequenceObjects :
        Constructed(<<val, Constructor>>, [compatible |-> FALSE, ObjectPrototype |-> "ObjectPrototype"])

Spec == Init /\ [][Next]_vars

\* One query on a fresh inspector, over every object of RuleObjects.
InitRules == \E val \in RuleObjects, rlm \in Realms : Constructed(<<val, Constructor>>, rlm)

FirstCall == calls = 0 /\ (CanIgnoreProperty \/ IsDefaultPrototype \/ GetPropertyValue)

SpecRules == InitRules /\ [][FirstCall]_vars

-----------------------------------------------------------------------------
(* What the properties below speak of *)

Present(val, key) == IndexOf(val, key) # 0 /\ ~val.properties[IndexOf(val, key)].deleted

DescOf(val, key) == val.properties[IndexOf(val, key)]

\* The object has a binding that fails the internal consistency check: it is
\* a function other than a source-defined one with a present `arguments' or
\* `caller'.
Offending(val) ==
    /\ ~IsArray(val)
    /\ IsFunctionValue(val)
    /\ val.cls # "ECMAScriptSourceFunctionValue"
    /\ Present(val, "arguments") \/ Present(val, "caller")

\* The function has a present `length' without a value.
HasLengthGetter(val) ==
    /\ ~IsArray(val)
    /\ IsFunctionValue(val)
    /\ Present(val, "length")
    /\ DescOf(val, "length").value = NoValue

\* The bindings that stand before the binding of `key'.
Before(val, key) == {val.properties[i].key : i \in 1..(IndexOf(val, key) - 1)}

\* The object without the bindings whose descriptor is absent.
WithoutDeleted(val) ==
    [val EXCEPT !.properties = SelectSeq(@, LAMBDA b : ~b.deleted)]

Queried == last.op = "canIgnoreProperty"

Subject == heap[last.val]

-----------------------------------------------------------------------------
(* C1 *)

\* The answer of a returning query is the first answer given for its object and key.
SameAsFirst == Queried /\ ~last.threw => <<last.val, last.key, last.ret>> \in first

\* C1 as stated: every canIgnoreProperty(o, k) returns what the first call
\* with that (o, k) returned, and _getIgnoredProperties(o) is executed at most
\* once per object, however many queries are made.
C1_ScanAtMostOnce ==
    /\ SameAsFirst
    /\ \A o \in DOMAIN heap : scans[o] <= 1

\* C1 amended: answers repeat the first answer; an object with an entry in
\* the map was scanned exactly once; an object is scanned more than once only
\* when its scan fails the internal consistency check, and then it never gets
\* an entry and every query on it scans again.
C1_ScanOncePerCompletedScan ==
    /\ SameAsFirst
    /\ \A o \in DOMAIN heap :
        /\ ignoredProperties[o].present => scans[o] = 1
        /\ scans[o] > 1 => Offending(heap[o]) /\ ~ignoredProperties[o].present

C1_Witness ==
    /\ Queried /\ last.ret /\ calls >= 2
    /\ scans[last.val] = 1
    /\ \A o \in DOMAIN heap : o # last.val => scans[o] = 0

-----------------------------------------------------------------------------
(* C2 *)

\* C2: isLeaf is false for every symbol; otherwise true for an abstract value
\* with an identifier, intrinsic or not; otherwise false for an intrinsic
\* value; otherwise true exactly for a primitive.  The call changes nothing
\* of the inspector: not the map, not the logger.
C2_LeafRules ==
    [][last'.op = "isLeaf" =>
          /\ last'.ret = (/\ last'.arg.cat # "Symbol"
                          /\ \/ last'.arg.cat = "Abstract" /\ last'.arg.identifier
                             \/ ~last'.arg.intrinsic /\ last'.arg.cat \in PrimitiveValue)
          /\ ignoredProperties' = ignoredProperties
          /\ logger' = logger
          /\ scans' = scans]_vars

C2_Witness ==
    /\ last.op = "isLeaf" /\ last.ret
    /\ last.arg.cat = "Abstract" /\ last.arg.identifier /\ last.arg.intrinsic

-----------------------------------------------------------------------------
(* C3 *)

\* The own properties of the object: its bindings that have a descriptor.
OwnProperties(val) == WithoutDeleted(val).properties

\* C3: isDefaultPrototype(o) is true exactly when o has no symbol-keyed
\* properties, its prototype is the realm's ObjectPrototype, it is extensible
\* and its own properties are exactly one `constructor' whose value is
\* o.originalConstructor.
C3_DefaultPrototypeIff ==
    last.op = "isDefaultPrototype" =>
        last.ret = (/\ Subject.symbols = 0
                    /\ Subject.proto = realm.ObjectPrototype
                    /\ Subject.extensible
                    /\ Len(OwnProperties(Subject)) = 1
                    /\ OwnProperties(Subject)[1].key = "constructor"
                    /\ OwnProperties(Subject)[1].value = OriginalConstructor(Subject))

-----------------------------------------------------------------------------
(* C4 *)

\* A returning query asked for the key of a binding without a descriptor.
DeletedQueried ==
    /\ Queried /\ ~last.threw
    /\ IndexOf(Subject, last.key) # 0
    /\ DescOf(Subject, last.key).deleted

\* C4: a binding without a descriptor does not exist for either query:
\* canIgnoreProperty is false for its key, and isDefaultPrototype answers as
\* for the same object without that binding.
C4_DeletedIsAbsent ==
    /\ DeletedQueried => ~last.ret
    /\ last.op = "isDefaultPrototype" =>
          last.ret = isDefaultPrototype(realm, WithoutDeleted(Subject))

-----------------------------------------------------------------------------
(* C5 *)

\* C5: for a source-defined function and the key `arguments' or `caller',
\* canIgnoreProperty is true exactly when the function is non-strict and of
\* kind "normal" and the descriptor is present, writable, not enumerable,
\* configurable and holds the Undefined value; the query never aborts.
C5_PoisonPill ==
    /\ Queried
    /\ Subject.cls = "ECMAScriptSourceFunctionValue"
    /\ last.key \in {"arguments", "caller"}
    => /\ ~last.threw
       /\ last.ret = (/\ Present(Subject, last.key)
                      /\ ~Subject.Strict
                      /\ Subject.FunctionKind = "normal"
                      /\ DescOf(Subject, last.key).writable
                      /\ ~DescOf(Subject, last.key).enumerable
                      /\ DescOf(Subject, last.key).configurable
                      /\ DescOf(Subject, last.key).value.cat = "Undefined")

C5_Witness ==
    /\ Queried /\ last.ret
    /\ Subject.cls = "ECMAScriptSourceFunctionValue"
    /\ last.key = "caller"

-----------------------------------------------------------------------------
(* C6 *)

\* The descriptor's literal is the function's recorded original name.
IsOriginalName(val, desc) == desc.value.cat = "String" /\ desc.value.value = val.originalName

-----------------------------------------------------------------------------
(* C7 *)

\* The query asks for the `length' of a function whose `length' has no value.
LengthGetterQueried ==
    /\ Queried
    /\ last.key = "length"
    /\ HasLengthGetter(Subject)

\* C7 as stated: a query for the `length' of a function whose `length' has
\* no value gives false, whatever the other flags and hasDefaultLength().
C7_AccessorRetained == LengthGetterQueried /\ ~last.threw => ~last.ret

\* C7 amended: the query aborts only on the internal consistency check; when
\* it returns, the verdict is that of the shape test alone: true exactly
\* when the descriptor is not writable, not enumerable and configurable and
\* hasDefaultLength() holds.
C7_ShapeDecides ==
    LengthGetterQueried =>
        /\ last.threw = Offending(Subject)
        /\ ~last.threw =>
              last.ret = (/\ ~DescOf(Subject, "length").writable
                          /\ ~DescOf(Subject, "length").enumerable
                          /\ DescOf(Subject, "length").configurable
                          /\ Subject.defaultLength)

C7_Witness == LengthGetterQueried /\ ~last.threw /\ last.ret /\ logger[last.val] = 1

-----------------------------------------------------------------------------
(* C8 *)

\* C8: for an array, canIgnoreProperty of `length' is true exactly when the
\* present descriptor is writable, not enumerable and not configurable,
\* whatever its value; of every other key it is true only for `constructor'
\* under the fallback rule.  No query on an array aborts.
C8_ArrayLength ==
    Queried /\ IsArray(Subject) =>
        /\ ~last.threw
        /\ last.key = "length" =>
              last.ret = (/\ Present(Subject, "length")
                          /\ DescOf(Subject, "length").writable
                          /\ ~DescOf(Subject, "length").enumerable
                          /\ ~DescOf(Subject, "length").configurable)
        /\ last.key # "length" =>
              last.ret = (/\ last.key = "constructor"
                          /\ Present(Subject, "constructor")
                          /\ DescOf(Subject, "constructor").writable
                          /\ ~DescOf(Subject, "constructor").enumerable
                          /\ DescOf(Subject, "constructor").configurable
                          /\ DescOf(Subject, "constructor").value = OriginalConstructor(Subject))

C8_Witness ==
    /\ Queried /\ IsArray(Subject) /\ last.ret
    /\ last.key = "length"
    /\ DescOf(Subject, "length").value = NoValue

-----------------------------------------------------------------------------
(* C9 *)

\* C9: a query aborts exactly when its object is a function, not a
\* source-defined one, with a present `arguments' or `caller', whatever the
\* key asked; such an object never gets an entry in the map, so that every
\* later query on it aborts as well.
C9_AbortsExactlyOnInvariant ==
    /\ Queried => last.threw = Offending(Subject)
    /\ \A o \in DOMAIN heap : Offending(heap[o]) => ~ignoredProperties[o].present

C9_Witness ==
    /\ Queried /\ last.threw
    /\ last.key \notin {"arguments", "caller"}
    /\ scans[last.val] >= 2

-----------------------------------------------------------------------------
(* C10 *)

\* C10 as stated: the diagnostic is logged at most once per function, and an
\* object that was queried has it logged exactly when it is a function with
\* a present `length' without a value.
C10_LoggedOnce ==
    \A o \in DOMAIN heap :
        /\ logger[o] <= 1
        /\ scans[o] >= 1 => (logger[o] >= 1 <=> HasLengthGetter(heap[o]))

\* A scan of the object reaches its `length' getter: no binding that fails
\* the consistency check stands before it.
ReachesLengthGetter(val) ==
    /\ HasLengthGetter(val)
    /\ Offending(val) =>
          \A k \in {"arguments", "caller"} : Present(val, k) => k \notin Before(val, "length")

\* C10 amended: the diagnostic is logged once by each scan that reaches the
\* function's `length' getter and by nothing else.  A function whose scan
\* completes is scanned once, by the first query on it whatever its key, and
\* has it logged at most once; a function whose scan aborts has it logged
\* again by every query when `length' stands before the offending binding,
\* and never when it stands after it.
C10_LoggedOncePerScan ==
    \A o \in DOMAIN heap :
        /\ logger[o] = (IF ReachesLengthGetter(heap[o]) THEN scans[o] ELSE 0)
        /\ ~Offending(heap[o]) => logger[o] <= 1

C10_Witness ==
    /\ calls >= 2
    /\ \E o \in DOMAIN heap :
        /\ logger[o] = 1 /\ scans[o] = 1 /\ ~Offending(heap[o])
        /\ \A f \in first : f[1] = o /\ f[2] # "length"
        /\ Cardinality(first) >= 2

====
